---- MODULE Spec2Model ----
(***************************************************************************)
(* Model of rusty_todo_list (src/src/main.rs): a terminal to-do list whose *)
(* visible SelectView "tasks" mirrors the rows of the sqlite table tasks.  *)
(*                                                                         *)
(* Storage is the table as the sequence of its rows in rowid order, which  *)
(* is the order of "SELECT name, completed FROM tasks".  A task name is    *)
(* the sequence of the characters typed into the EditView.  A StyledString *)
(* is a record of its source text and the effect of its single span.       *)
(***************************************************************************)
EXTENDS Naturals, Integers, Sequences, FiniteSets, TLC

\* Bounds of the model.
MaxText == 2        \* longest text typed into the add prompt
MaxTasks == 3       \* most rows the table holds

\* The 5 of `start.elapsed().as_secs() < 5` and of `/ 5f32`.
StartupSecs == 5

\* Characters the user types.  'q' is the key bound to quit; every other
\* character is inserted by a focused EditView exactly as 'q' is and is ignored
\* everywhere else, so 'q' stands for all of them: the names are "", "q", "qq", ...
Chars == {"q"}

VARIABLES
    storage,    \* rows of table tasks, in rowid order: [name, completed]
    task_list,  \* the Vec<StyledString> main() fetched before the timer started
    tasks,      \* the SelectView named "tasks": [items, focus]
    ui,         \* what the process shows: loading, main, prompt, notice; or quit, aborted
    text,       \* content of the EditView named "task" while the prompt is open
    dlgFocus,   \* focused widget of the add prompt: edit, buttons (none without prompt)
    elapsed,    \* start.elapsed() at the last poll, a Duration: [secs, nanos]
    lastOp,     \* history: the handler run last (ok, cancel, remove_todo, set_status, key_q; else other)
    toggles,    \* history: 0 if the last event was no toggle, else 1 (odd run) or 2 (even run)
    before,     \* history: the task's flag and label effect before a run of toggles
    scen,       \* history: how far the operations since an empty table follow the scenario
    atQuit      \* history: the visible list at the last quit, until the next run is used

vars == <<storage, task_list, tasks, ui, text, dlgFocus, elapsed, lastOp, toggles, before,
          scen, atQuit>>

----------------------------------------------------------------------------
\* Sequence helpers (Vec::remove, Vec::insert).

RemoveAt(s, i) == SubSeq(s, 1, i - 1) \o SubSeq(s, i + 1, Len(s))

InsertAt(s, i, x) == SubSeq(s, 1, i - 1) \o <<x>> \o SubSeq(s, i, Len(s))

Min(a, b) == IF a < b THEN a ELSE b

----------------------------------------------------------------------------
\* StyledString.

\* SpannedString::styled(name, effect)
styled(name, effect) == [source |-> name, effect |-> effect]

\* StyledString::plain(name), what add_item_str makes of a String: no effect at all
plain(name) == [source |-> name, effect |-> "None"]

\* What the terminal draws: Effect::Simple and no effect both draw plain text.
Rendering(label) == IF label.effect = "Strikethrough" THEN "strikethrough" ELSE "plain"

----------------------------------------------------------------------------
\* Storage layer: the four SQL statements.

HasRow(db, name) == \E j \in 1..Len(db) : db[j].name = name

\* INSERT INTO tasks (name, completed) VALUES (?1, false): name is the PRIMARY KEY,
\* so a second row of the same name is a constraint error and the table is unchanged.
\* A new row gets the largest rowid, so it is last in scan order.
\* Variant: the table without its PRIMARY KEY, every insert appends a row.
insert_data_nokey(db, task_name) ==
    [ok |-> TRUE, db |-> Append(db, [name |-> task_name, completed |-> FALSE])]

\* Variant: INSERT OR REPLACE, the old row gives way to a fresh one.
insert_data_replace(db, task_name) ==
    LET Keep(row) == row.name # task_name
    IN  [ok |-> TRUE,
         db |-> Append(SelectSeq(db, Keep), [name |-> task_name, completed |-> FALSE])]

insert_data(db, task_name) ==
    IF HasRow(db, task_name)
    THEN [ok |-> FALSE, db |-> db]
    ELSE [ok |-> TRUE, db |-> Append(db, [name |-> task_name, completed |-> FALSE])]

\* DELETE FROM tasks WHERE (name) IS (?1)
IsNotNamed(row, name) == row.name # name

\* Variant: DELETE FROM tasks, the WHERE clause lost.
delete_data_all(db, task_data) == SubSeq(db, 1, 0)

delete_data(db, task_data) ==
    LET Keep(row) == IsNotNamed(row, task_data) IN SelectSeq(db, Keep)

\* SELECT completed FROM tasks WHERE name = ?1, unwrap_or(false)
\* Variant: the query fails every time and the default is taken.
get_status_default(db, task) == FALSE

get_status(db, task) ==
    IF HasRow(db, task)
    THEN db[CHOOSE j \in 1..Len(db) : db[j].name = task].completed
    ELSE FALSE

\* UPDATE tasks SET completed = ?2 WHERE name IS ?1, with ?2 = !status
\* Variant: ?2 = status, the negation lost.
update_status_same(db, task, status) ==
    [j \in 1..Len(db) |->
        IF db[j].name = task THEN [db[j] EXCEPT !.completed = status] ELSE db[j]]

update_status(db, task, status) ==
    [j \in 1..Len(db) |->
        IF db[j].name = task THEN [db[j] EXCEPT !.completed = ~status] ELSE db[j]]

\* SELECT name, completed FROM tasks, each row styled by its flag
\* Variant: the rows come newest first.
retrieve_list_newest_first(db) ==
    [j \in 1..Len(db) |->
        IF ~db[Len(db) + 1 - j].completed
        THEN styled(db[Len(db) + 1 - j].name, "Simple")
        ELSE styled(db[Len(db) + 1 - j].name, "Strikethrough")]

retrieve_list(db) ==
    [j \in 1..Len(db) |->
        IF ~db[j].completed
        THEN styled(db[j].name, "Simple")
        ELSE styled(db[j].name, "Strikethrough")]

----------------------------------------------------------------------------
\* SelectView<String>: items are (label, data) pairs, focus is a 0-based index.
\* An Option<usize> is the set of its values: {} is None, {i} is Some(i).

EmptyView == [items |-> <<>>, focus |-> 0]

\* Variant: the focus is returned whether or not there is an item.
selected_id_focus(view) == {view.focus}

selected_id(view) == IF view.items = <<>> THEN {} ELSE {view.focus}

get_item(view, id) == IF id < Len(view.items) THEN {view.items[id + 1]} ELSE {}

add_item(view, label, data) ==
    [view EXCEPT !.items = Append(@, [label |-> label, data |-> data])]

add_item_str(view, s) == add_item(view, plain(s), s)

\* Variant: the first item is removed, whatever the index.
remove_item_first(view, id) ==
    [items |-> Tail(view.items),
     focus |-> IF view.focus >= id /\ view.focus > 0 THEN view.focus - 1 ELSE view.focus]

remove_item(view, id) ==
    [items |-> RemoveAt(view.items, id + 1),
     focus |-> IF view.focus >= id /\ view.focus > 0 THEN view.focus - 1 ELSE view.focus]

\* Variant: the item is pushed to the end of the list.
insert_item_last(view, index, label, data) ==
    [items |-> Append(view.items, [label |-> label, data |-> data]),
     focus |-> view.focus]

\* The focus follows the items that move down; set_status sets the selection
\* again right after its insert_item.
insert_item(view, index, label, data) ==
    [items |-> InsertAt(view.items, index + 1, [label |-> label, data |-> data]),
     focus |-> IF view.focus >= index /\ Len(view.items) > 0
               THEN view.focus + 1 ELSE view.focus]

\* Variant: the selection is not restored.
set_selection_kept(view, i) == view

set_selection(view, i) ==
    [view EXCEPT !.focus = IF view.items = <<>> THEN 0 ELSE Min(i, Len(view.items) - 1)]

----------------------------------------------------------------------------
\* Startup.

NanosPerSec == 10^9

\* The instants at which the placeholder is polled: every whole second up to
\* the threshold, every half second, and the last nanosecond of every second.
Instants ==
    {d \in [secs : 0..StartupSecs, nanos : {0, 5 * 10^8, NanosPerSec - 1}] :
        d.secs < StartupSecs \/ d.nanos = 0}

Later(d, e) == d.secs > e.secs \/ (d.secs = e.secs /\ d.nanos > e.nanos)

\* Duration::as_secs: the whole seconds, the nanoseconds dropped.
as_secs(e) == e.secs

RECURSIVE f32_spacing(_, _)
\* The distance between neighbouring f32 values at n: an f32 has 24 significant bits.
f32_spacing(n, g) == IF n \div g < 2^24 THEN g ELSE f32_spacing(n, 2 * g)

\* `n as f32` for an integer n: the nearest f32, ties to the even mantissa.
to_f32(n) ==
    LET g == f32_spacing(n, 1)
        lo == (n \div g) * g
        r == n - lo
    IN  IF 2 * r < g THEN lo
        ELSE IF 2 * r > g THEN lo + g
        ELSE IF (lo \div g) % 2 = 0 THEN lo ELSE lo + g

\* Duration::as_secs_f32: (secs as f32) + (nanos as f32) / (1e9 as f32), kept as
\* seconds and nanoseconds.  For the instants polled the quotient (0, 0.5 or 1)
\* and the sum are f32 values, so the conversion of nanos is the only rounding.
as_secs_f32(e) ==
    LET n == to_f32(e.nanos)
    IN  [secs |-> e.secs + (n \div NanosPerSec), nanos |-> n % NanosPerSec]

\* The fraction of Pending(start.elapsed().as_secs_f32() / 5f32): numerator and
\* denominator (the quotient of an f32 below 5 by 5 is an f32 below 1).
progress(e) == [num |-> as_secs_f32(e), den |-> StartupSecs]

\* Variant: the threshold compared with <=.
async_state_late(e) == IF as_secs(e) <= StartupSecs THEN "Pending" ELSE "Available"

\* The closure of AsyncProgressView: Pending below 5 whole seconds, then Available.
async_state(e) == IF as_secs(e) < StartupSecs THEN "Pending" ELSE "Available"

RECURSIVE build_view(_, _)
\* for styled_task in task_list.clone() { tasks_view.add_item(styled_task, source) }
build_view(view, list) ==
    IF list = <<>> THEN view
    ELSE build_view(add_item(view, Head(list), Head(list).source), Tail(list))

NoSnap == [name |-> <<>>, completed |-> FALSE, rendering |-> "none"]

\* The names of the end-to-end scenario: "q" stands for "Write spec", "qq" for
\* "Review spec".
WriteSpec == <<"q">>

ReviewSpec == <<"q", "q">>

\* scen tells how much of the scenario has been done, when its operations are
\* all that was done since the table was empty: add WriteSpec, add ReviewSpec,
\* toggle WriteSpec, delete ReviewSpec.  Any other add, toggle or delete leaves it.
OffScenario == "off"

ScenAfterAdd(name, inserted) ==
    IF inserted /\ scen = "empty" /\ name = WriteSpec THEN "added one"
    ELSE IF inserted /\ scen = "added one" /\ name = ReviewSpec THEN "added two"
    ELSE OffScenario

ScenAfterToggle(name) ==
    IF scen = "added two" /\ name = WriteSpec THEN "toggled" ELSE OffScenario

ScenAfterDelete(name) ==
    IF scen = "toggled" /\ name = ReviewSpec THEN "done" ELSE OffScenario

\* What the user sees of the list: raw names in order, each plain or struck through.
Shown(view) ==
    [i \in 1..Len(view.items) |->
        [name |-> view.items[i].data, rendering |-> Rendering(view.items[i].label)]]

NoQuit == [known |-> FALSE, list |-> <<>>]

QuitWith(view) == [known |-> TRUE, list |-> Shown(view)]

NoHistory == toggles' = 0 /\ before' = NoSnap

\* main() up to siv.run(): the table exists (CREATE TABLE IF NOT EXISTS keeps its
\* rows), the list is fetched, then the timer starts and the placeholder shows.
Startup(db) ==
    /\ storage' = db
    /\ task_list' = retrieve_list(db)
    /\ tasks' = EmptyView
    /\ ui' = "loading"
    /\ text' = <<>>
    /\ dlgFocus' = "none"
    /\ elapsed' = [secs |-> 0, nanos |-> 0]
    /\ lastOp' = "other"
    /\ NoHistory
    /\ scen' = IF db = <<>> THEN "empty" ELSE scen
    /\ atQuit' = IF ui = "quit" THEN atQuit ELSE NoQuit

Init ==
    /\ storage = <<>>
    /\ task_list = retrieve_list(<<>>)
    /\ tasks = EmptyView
    /\ ui = "loading"
    /\ text = <<>>
    /\ dlgFocus = "none"
    /\ elapsed = [secs |-> 0, nanos |-> 0]
    /\ lastOp = "other"
    /\ toggles = 0
    /\ before = NoSnap
    /\ scen = "empty"
    /\ atQuit = NoQuit

\* The process is run again after it quit or aborted; the database file persists.
Restart ==
    /\ ui \in {"quit", "aborted"}
    /\ Startup(storage)

\* A poll that found Pending is followed by the next poll, at a later instant.
Tick(d) ==
    /\ ui = "loading"
    /\ async_state(elapsed) = "Pending"
    /\ Later(d, elapsed)
    /\ elapsed' = d
    /\ lastOp' = "other"
    /\ UNCHANGED <<storage, task_list, tasks, ui, text, dlgFocus, toggles, before>>
    /\ UNCHANGED <<scen, atQuit>>

\* The poll that finds Available builds the list view from task_list.
Ready ==
    /\ ui = "loading"
    /\ async_state(elapsed) = "Available"
    /\ tasks' = build_view(EmptyView, task_list)
    /\ task_list' = <<>>
    /\ ui' = "main"
    /\ lastOp' = "other"
    /\ UNCHANGED <<storage, text, dlgFocus, elapsed, toggles, before>>
    /\ UNCHANGED <<scen, atQuit>>

----------------------------------------------------------------------------
\* Add flow.

\* Button "Add": the prompt layer opens over the list, its EditView focused.
add_todo ==
    /\ ui = "main"
    /\ ui' = "prompt"
    /\ text' = <<>>
    /\ dlgFocus' = "edit"
    /\ lastOp' = "other"
    /\ NoHistory
    /\ UNCHANGED <<storage, task_list, tasks, elapsed, scen>>
    /\ atQuit' = NoQuit

\* Tab or an arrow key moves the focus inside the prompt, between the EditView
\* and the row of buttons.
DlgFocusMove(f) ==
    /\ ui = "prompt"
    /\ f # dlgFocus
    /\ dlgFocus' = f
    /\ lastOp' = "other"
    /\ NoHistory
    /\ UNCHANGED <<storage, task_list, tasks, ui, text, elapsed, scen>>
    /\ atQuit' = NoQuit

\* Variant: the prompt takes the keys whichever of its widgets is focused.
EditFocused_prompt == ui = "prompt"

\* The focused EditView takes every character key, 'q' included.
EditFocused == ui = "prompt" /\ dlgFocus = "edit"

KeyName(c) == IF c = "q" THEN "key_q" ELSE "other"

\* A character key: the view tree is offered the event first (only a focused
\* EditView consumes it); an event nothing consumed goes to the global
\* callbacks, where siv.add_global_callback('q', |s| s.quit()) ends the run.
KeyChar(c) ==
    /\ ui \in {"loading", "main", "prompt", "notice"}
    /\ IF EditFocused
       THEN /\ Len(text) < MaxText
            /\ text' = Append(text, c)
            /\ UNCHANGED <<ui, dlgFocus>>
            /\ UNCHANGED <<task_list, tasks>>
            /\ atQuit' = NoQuit
       ELSE \* s.quit(): the event loop ends and the views are dropped
            /\ c = "q"
            /\ ui' = "quit"
            /\ text' = <<>>
            /\ dlgFocus' = "none"
            /\ task_list' = <<>>
            /\ tasks' = EmptyView
            /\ atQuit' = IF ui = "loading" THEN atQuit ELSE QuitWith(tasks)
    /\ lastOp' = KeyName(c)
    /\ NoHistory
    /\ UNCHANGED <<storage, elapsed, scen>>

\* fn ok(s, task_name): the item is added to the view first, then the row is
\* inserted; expect("Failed to insert item") panics when the insert fails,
\* otherwise the prompt layer is popped.
ok(task_name) ==
    LET view == add_item_str(tasks, task_name)
        r == insert_data(storage, task_name)
    IN  /\ r.ok => Len(storage) < MaxTasks
        /\ tasks' = view
        /\ storage' = r.db
        /\ ui' = IF r.ok THEN "main" ELSE "aborted"
        /\ text' = <<>>
        /\ dlgFocus' = "none"
        /\ lastOp' = "ok"
        /\ NoHistory
        /\ scen' = ScenAfterAdd(task_name, r.ok)
        /\ atQuit' = NoQuit
        /\ UNCHANGED <<task_list, elapsed>>

\* Enter in the EditView: on_submit(ok) with the content.
SubmitEnter ==
    /\ EditFocused
    /\ ok(text)

\* Button "Ok" (Enter on it, or a click): ok(s, &view.get_content()).
OkButton ==
    /\ ui = "prompt"
    /\ ok(text)

\* Variant: Cancel adds the typed text to the list before it pops the prompt.
CancelButton_adds ==
    /\ ui = "prompt"
    /\ ui' = "main"
    /\ tasks' = add_item_str(tasks, text)
    /\ text' = <<>>
    /\ dlgFocus' = "none"
    /\ lastOp' = "cancel"
    /\ NoHistory
    /\ UNCHANGED <<storage, task_list, elapsed, scen>>
    /\ atQuit' = NoQuit

\* Button "Cancel" (Enter on it, or a click): s.pop_layer().
CancelButton ==
    /\ ui = "prompt"
    /\ ui' = "main"
    /\ text' = <<>>
    /\ dlgFocus' = "none"
    /\ lastOp' = "cancel"
    /\ NoHistory
    /\ UNCHANGED <<storage, task_list, tasks, elapsed, scen>>
    /\ atQuit' = NoQuit

----------------------------------------------------------------------------
\* Delete flow.

\* Button "Delete".
remove_todo ==
    /\ ui = "main"
    /\ LET sel == selected_id(tasks) IN
       IF sel = {}
       THEN \* None => s.add_layer(Dialog::info("No task to remove"))
            /\ ui' = "notice"
            /\ UNCHANGED <<storage, tasks, scen>>
       ELSE LET focus == CHOOSE f \in sel : TRUE
                got == get_item(tasks, focus)
            IN  IF got = {}
                THEN \* expect("Failed to access task data for deletion")
                     /\ ui' = "aborted"
                     /\ scen' = OffScenario
                     /\ UNCHANGED <<storage, tasks>>
                ELSE LET task_data == (CHOOSE it \in got : TRUE).data
                     IN  /\ tasks' = remove_item(tasks, focus)
                         /\ storage' = delete_data(storage, task_data)
                         /\ ui' = "main"
                         /\ scen' = ScenAfterDelete(task_data)
    /\ lastOp' = "remove_todo"
    /\ NoHistory
    /\ atQuit' = NoQuit
    /\ UNCHANGED <<task_list, text, dlgFocus, elapsed>>

\* The Ok button of Dialog::info pops the notice.
DismissNotice ==
    /\ ui = "notice"
    /\ ui' = "main"
    /\ lastOp' = "other"
    /\ NoHistory
    /\ UNCHANGED <<storage, task_list, tasks, text, dlgFocus, elapsed, scen>>
    /\ atQuit' = NoQuit

----------------------------------------------------------------------------
\* Toggle flow.

\* The body of set_status(s, task) on the table and the view.
set_status_run(db, view, task) ==
    LET sel == selected_id(view) IN
    IF sel = {} THEN [db |-> db, view |-> view]
    ELSE LET id == CHOOSE f \in sel : TRUE
             task_data == get_item(view, id)
             removed == remove_item(view, id)
         IN  IF task_data = {}
             THEN [db |-> db, view |-> set_selection(removed, id)]
             ELSE LET data == (CHOOSE it \in task_data : TRUE).data
                      task_status == get_status(db, task)
                      db2 == update_status(db, task, task_status)
                      label == IF ~task_status
                               THEN styled(task, "Strikethrough")
                               ELSE styled(task, "Simple")
                      inserted == insert_item(removed, id, label, data)
                  IN  [db |-> db2, view |-> set_selection(inserted, id)]

\* The flag and the rendering of the selected task.
Snapshot(db, view) ==
    LET it == view.items[view.focus + 1]
    IN  [name |-> it.data,
         completed |-> get_status(db, it.data),
         rendering |-> Rendering(it.label)]

\* Enter on the list: on_submit(set_status) with the selected item's value.
set_status ==
    /\ ui = "main"
    /\ \E it \in get_item(tasks, tasks.focus) :
           LET r == set_status_run(storage, tasks, it.data)
           IN  /\ storage' = r.db
               /\ tasks' = r.view
               /\ scen' = ScenAfterToggle(it.data)
    /\ lastOp' = "set_status"
    /\ toggles' = IF toggles = 1 THEN 2 ELSE 1
    /\ before' = IF toggles = 0 THEN Snapshot(storage, tasks) ELSE before
    /\ atQuit' = NoQuit
    /\ UNCHANGED <<task_list, ui, text, dlgFocus, elapsed>>

\* Up / Down on the list move the selection by one.
Navigate(f) ==
    /\ ui = "main"
    /\ f \in 0..(Len(tasks.items) - 1)
    /\ f = tasks.focus + 1 \/ f + 1 = tasks.focus
    /\ tasks' = [tasks EXCEPT !.focus = f]
    /\ lastOp' = "other"
    /\ NoHistory
    /\ UNCHANGED <<storage, task_list, ui, text, dlgFocus, elapsed, scen>>
    /\ atQuit' = NoQuit

----------------------------------------------------------------------------

Next ==
    \/ Restart
    \/ \E d \in Instants : Tick(d)
    \/ Ready
    \/ add_todo
    \/ \E f \in {"edit", "buttons"} : DlgFocusMove(f)
    \/ \E c \in Chars : KeyChar(c)
    \/ SubmitEnter
    \/ OkButton
    \/ CancelButton
    \/ remove_todo
    \/ DismissNotice
    \/ set_status
    \/ \E f \in 0..MaxTasks : Navigate(f)

Spec == Init /\ [][Next]_vars

----------------------------------------------------------------------------
\* Properties.

\* The process is between two handlers and the list view exists.
Settled == ui \in {"main", "prompt", "notice"}

RowsNamed(db, n) == {j \in 1..Len(db) : db[j].name = n}

ItemsNamed(items, n) == {i \in 1..Len(items) : items[i].data = n}

FlagRendering(completed) == IF completed THEN "strikethrough" ELSE "plain"

\* s without its i-th element.
Without(s, i) == [k \in 1..(Len(s) - 1) |-> IF k < i THEN s[k] ELSE s[k + 1]]

\* C1: after every completed user operation the visible list and the table
\* agree: each visible item has exactly one row of its raw name, and is drawn
\* plain or struck through as that row's completed flag says; each row has
\* exactly one visible item.
C1_ListMatchesTable ==
    Settled =>
        /\ \A i \in 1..Len(tasks.items) :
              LET it == tasks.items[i] IN
              /\ it.label.source = it.data
              /\ Cardinality(RowsNamed(storage, it.data)) = 1
              /\ \A j \in RowsNamed(storage, it.data) :
                    Rendering(it.label) = FlagRendering(storage[j].completed)
        /\ \A j \in 1..Len(storage) :
              Cardinality(ItemsNamed(tasks.items, storage[j].name)) = 1

\* A toggle has just completed on a list of three tasks, loaded and added ones,
\* done and not done.
C1_Witness ==
    /\ ui = "main"
    /\ lastOp = "set_status"
    /\ Len(tasks.items) = 3
    /\ \E i, k \in 1..3 :
          /\ tasks.items[i].label.effect = "None"
          /\ tasks.items[k].label.effect = "Strikethrough"
    /\ \E j \in 1..3 : storage[j].completed
    /\ \E j \in 1..3 : ~storage[j].completed

\* C2: no two rows of the table have the same name, whatever was added,
\* deleted and toggled.
C2_UniqueNames ==
    \A j, k \in 1..Len(storage) : storage[j].name = storage[k].name => j = k

\* A submit of a name the table already held has just been refused.
C2_Witness ==
    /\ lastOp = "ok"
    /\ ui = "aborted"
    /\ Len(storage) >= 2
    /\ HasRow(storage, tasks.items[Len(tasks.items)].data)

\* C3: on an add submit the row is inserted before the list is touched, and
\* the item is appended only if the insert succeeded: a submit of a name the
\* table already holds leaves the list as it was.
C3_InsertThenAppend ==
    [][lastOp' = "ok" =>
          IF HasRow(storage, text)
          THEN tasks' = tasks
          ELSE tasks'.items = Append(tasks.items, [label |-> plain(text), data |-> text])
      ]_vars

\* C4: every name in the table and every raw name in the list is non-empty.
C4_NamesNonEmpty ==
    /\ \A j \in 1..Len(storage) : storage[j].name # <<>>
    /\ \A i \in 1..Len(tasks.items) : tasks.items[i].data # <<>>

\* C5: Delete with the selection at index i, raw name n, removes exactly the
\* row named n from the table and exactly the item at index i from the list;
\* the other rows and items keep their flags, labels and order.
C5_DeleteExactlyOne ==
    [][(lastOp' = "remove_todo" /\ tasks.items # <<>>) =>
          LET i == tasks.focus
              n == tasks.items[i + 1].data
          IN  /\ Cardinality(RowsNamed(storage, n)) = 1
              /\ \A j \in RowsNamed(storage, n) : storage' = Without(storage, j)
              /\ tasks'.items = Without(tasks.items, i + 1)
              /\ ui' = "main"
      ]_vars

\* A delete has just left two of three tasks, one of them done.
C5_Witness ==
    /\ lastOp = "remove_todo"
    /\ ui = "main"
    /\ Len(tasks.items) = 2
    /\ Len(storage) = 2
    /\ storage[1].completed # storage[2].completed

\* C6: toggling the same task twice in a row, nothing in between, returns its
\* stored flag and its rendering to what they were before the first toggle,
\* whichever they were.
C6_ToggleTwice ==
    toggles = 2 => Snapshot(storage, tasks) = before

\* An even run of toggles has just ended on a task that was done before it,
\* selected below the top of the list.
C6_Witness ==
    /\ toggles = 2
    /\ lastOp = "set_status"
    /\ before.completed
    /\ before.rendering = "strikethrough"
    /\ tasks.focus > 0

\* C7: Delete on the empty list shows the notice, changes neither the table nor
\* the list and does not end the process; the notice can be dismissed, which
\* leads back to the list, where Add and Delete are accepted again.
C7_EmptyDelete ==
    /\ [][(lastOp' = "remove_todo" /\ tasks.items = <<>>) =>
              /\ ui' = "notice"
              /\ storage' = storage
              /\ tasks' = tasks
         ]_vars
    /\ [](ui = "notice" => ENABLED DismissNotice)
    /\ [][(ui = "notice" /\ lastOp' = "other") => ui' = "main"]_vars
    /\ [](ui = "main" => (ENABLED add_todo /\ ENABLED remove_todo))

\* The notice is showing over an empty list and an empty table.
C7_Witness ==
    /\ ui = "notice"
    /\ lastOp = "remove_todo"
    /\ tasks.items = <<>>
    /\ storage = <<>>

\* C8: an add submit of a name the table already holds aborts the process and
\* leaves the table as it was (the row keeps its flag, no row is added); the
\* list fetched at the next startup holds that name exactly once.
C8_DuplicateAborts ==
    /\ [][(lastOp' = "ok" /\ HasRow(storage, text)) =>
              /\ ui' = "aborted"
              /\ storage' = storage
         ]_vars
    /\ [][(ui = "aborted" /\ lastOp = "ok" /\ ui' = "loading") =>
              LET n == tasks.items[Len(tasks.items)].data
                  shown == build_view(EmptyView, task_list').items
              IN  /\ storage' = storage
                  /\ Cardinality(ItemsNamed(shown, n)) = 1
         ]_vars

\* The process has just aborted on a second submit of the name of a done task.
C8_Witness ==
    /\ ui = "aborted"
    /\ lastOp = "ok"
    /\ Len(tasks.items) = Len(storage) + 1
    /\ get_status(storage, tasks.items[Len(tasks.items)].data)

\* C9 as stated: in every UI state a 'q' key press ends the run.
C9_QuitEverywhere ==
    [][lastOp' = "key_q" => ui' = "quit"]_vars

\* C9, amended: a 'q' key press ends the run in every UI state but one: while
\* the add prompt's text field has the focus, 'q' is inserted into the text and
\* the run goes on.  Wherever the text field is not focused the key is accepted.
C9_QuitUnlessTyping ==
    /\ [][lastOp' = "key_q" =>
              IF ui = "prompt" /\ dlgFocus = "edit"
              THEN /\ ui' = "prompt"
                   /\ text' = Append(text, "q")
                   /\ storage' = storage
                   /\ tasks' = tasks
              ELSE ui' = "quit"
         ]_vars
    /\ []((Settled \/ ui = "loading") /\ dlgFocus # "edit" => ENABLED KeyChar("q"))

\* 'q' has just been typed into the prompt's text field, and the prompt is
\* still open.
C9_Witness ==
    /\ lastOp = "key_q"
    /\ ui = "prompt"
    /\ dlgFocus = "edit"
    /\ text = <<"q">>

\* C10: Cancel closes the prompt and changes neither the table nor the list
\* (items, order, labels, selection), whatever had been typed.
C10_CancelNoChange ==
    [][lastOp' = "cancel" =>
          /\ ui = "prompt"
          /\ ui' = "main"
          /\ storage' = storage
          /\ tasks' = tasks
      ]_vars

\* A prompt has just been cancelled over a list of several tasks with the
\* selection below the top.
C10_Witness ==
    /\ lastOp = "cancel"
    /\ ui = "main"
    /\ Len(tasks.items) >= 2
    /\ tasks.focus > 0

\* C11: from an empty table, add "Write spec", add "Review spec", toggle
\* "Write spec", delete "Review spec" end with exactly one row and one visible
\* item: "Write spec", completed, struck through.
C11_EndToEnd ==
    scen = "done" =>
        /\ storage = <<[name |-> WriteSpec, completed |-> TRUE]>>
        /\ Settled => Shown(tasks) = <<[name |-> WriteSpec, rendering |-> "strikethrough"]>>

\* The scenario's last operation, the delete, has just completed.
C11_Witness ==
    /\ scen = "done"
    /\ lastOp = "remove_todo"
    /\ ui = "main"

\* The Pending fraction is at least 0 and below 1.
BelowOne(p) == p.num.secs >= 0 /\ p.num.secs < p.den

\* The Pending fraction is at least 0 and at most 1.
AtMostOne(p) == BelowOne(p) \/ (p.num.secs = p.den /\ p.num.nanos = 0)

\* No add, delete or toggle can be started or completed.
NoOperation ==
    /\ ~ENABLED add_todo
    /\ ~ENABLED SubmitEnter
    /\ ~ENABLED OkButton
    /\ ~ENABLED CancelButton
    /\ ~ENABLED remove_todo
    /\ ~ENABLED set_status

PersistedNames(db) == {db[j].name : j \in 1..Len(db)}

\* C13: a toggle writes the negation of the selected task's stored flag and
\* draws the item from the value it read, so that afterwards the item is struck
\* through exactly if its stored flag is true.
C13_ToggleFlipsAndRenders ==
    [][lastOp' = "set_status" =>
          LET i == tasks.focus + 1
              n == tasks.items[i].data
          IN  /\ RowsNamed(storage, n) # {}
              /\ \A j \in RowsNamed(storage, n) :
                    storage'[j].completed = ~storage[j].completed
              /\ tasks'.items[i].data = n
              /\ \A j \in RowsNamed(storage', n) :
                    (Rendering(tasks'.items[i].label) = "strikethrough")
                        <=> storage'[j].completed
      ]_vars

\* A single toggle has just turned a task that was done back to not done, in
\* a list of several tasks.
C13_Witness ==
    /\ lastOp = "set_status"
    /\ toggles = 1
    /\ before.completed
    /\ Len(tasks.items) >= 2
    /\ ~Snapshot(storage, tasks).completed
    /\ Snapshot(storage, tasks).rendering = "plain"

\* C14: a toggle of the item at the selected index i leaves unchanged the
\* length of the list, the order of the raw names (the toggled item is back at
\* i), the selected index, the set of persisted names, and the flag and the
\* label of every other task.
C14_ToggleFrame ==
    [][lastOp' = "set_status" =>
          LET i == tasks.focus + 1
              n == tasks.items[i].data
          IN  /\ Len(tasks'.items) = Len(tasks.items)
              /\ \A k \in 1..Len(tasks.items) : tasks'.items[k].data = tasks.items[k].data
              /\ tasks'.focus = tasks.focus
              /\ PersistedNames(storage') = PersistedNames(storage)
              /\ Len(storage') = Len(storage)
              /\ \A j \in 1..Len(storage) : storage[j].name # n => storage'[j] = storage[j]
              /\ \A k \in 1..Len(tasks.items) : k # i => tasks'.items[k] = tasks.items[k]
      ]_vars

\* The middle one of three tasks has just been toggled.
C14_Witness ==
    /\ lastOp = "set_status"
    /\ Len(tasks.items) = 3
    /\ Len(storage) = 3
    /\ tasks.focus = 1

\* C15: after a delete of the selected index i from a list of n > 1 items a
\* selection still exists: index i if i < n - 1, otherwise the new last index.
C15_SelectionStays ==
    [][(lastOp' = "remove_todo" /\ Len(tasks.items) > 1) =>
          LET i == tasks.focus
              n == Len(tasks.items)
          IN  /\ tasks'.items # <<>>
              /\ tasks'.focus = IF i < n - 1 THEN i ELSE n - 2
      ]_vars

\* C16: when the application is quit and started again, the list built at
\* startup shows the raw names, in the order and with the renderings, that the
\* list showed at the moment of quitting.
C16_RoundTrip ==
    (ui = "main" /\ atQuit.known) => Shown(tasks) = atQuit.list

\* A run that was quit with three tasks showing, done and not done, has been
\* started again and its list has just appeared.
C16_Witness ==
    /\ ui = "main"
    /\ atQuit.known
    /\ Len(atQuit.list) = 3
    /\ \E i, k \in 1..3 :
          /\ atQuit.list[i].rendering = "strikethrough"
          /\ atQuit.list[k].rendering = "plain"
    /\ storage[1].completed # storage[3].completed

====
